---- MODULE Spec2Model ----
(***************************************************************************)
(* A model of or-models (src/or-models.ts): the fetch / validate / cache   *)
(* pipeline of fetchModels, and the pure functions filterModels and        *)
(* sortModels.                                                             *)
(*                                                                         *)
(* Strings are tuples of one-character strings, so that toLowerCase,       *)
(* includes, parseFloat and the < of strings are computed, not assumed.    *)
(* Time is in hours.                                                       *)
(***************************************************************************)
EXTENDS Integers, Sequences, FiniteSets, TLC

VARIABLES
    now,          \* Date.now(), in hours
    dirExists,    \* CACHE_DIR exists
    cacheFile,    \* CACHE_FILE: NoFile, or [content, mtime, access]
    pc,           \* position of the running invocation of fetchModels
    forceRefresh, \* the argument of fetchModels
    net,          \* the network path: [status, validated (validatedData), write]
    startFile,    \* CACHE_FILE as the running invocation found it
    log,          \* the I/O operations of the running invocation, in order
    result,       \* how the running invocation ended
    prev,         \* how the invocation before it ended
    stage,        \* position of the filter / sort exploration
    models,       \* the Model[] handed to filterModels / sortModels
    args,         \* the parsed arguments handed to filterModels
    sortArgs,     \* [sortBy, desc] handed to sortModels
    out,          \* what filterModels / sortModels returned
    createdTs,    \* the created timestamp handed to getHumanReadableAge, in seconds
    clock,        \* new Date() inside getHumanReadableAge: [s, ms]
    age           \* what getHumanReadableAge returned

fetchVars == <<now, dirExists, cacheFile, pc, forceRefresh, net, startFile, log, result, prev>>
ageVars == <<createdTs, clock, age>>
pureVars == <<stage, models, args, sortArgs, out, createdTs, clock, age>>
vars == <<now, dirExists, cacheFile, pc, forceRefresh, net, startFile, log, result, prev,
          stage, models, args, sortArgs, out, createdTs, clock, age>>

(***************************************************************************)
(* Bounds of the exploration.                                              *)
(***************************************************************************)
MaxNow == 48
MaxLen == 3
MaxFilterLen == 2
MaxYears == 2

(***************************************************************************)
(* Constants of the program.                                               *)
(***************************************************************************)
CACHE_EXPIRATION_HOURS == 24

AUTO_ID == <<"o","p","e","n","r","o","u","t","e","r","/","a","u","t","o">>

\* Number.MAX_SAFE_INTEGER (9007199254740991).  TLC's integers have 32 bits, so
\* the model keeps a stand-in that, like the original, is above every price and
\* every price bound a run holds.
MAX_SAFE_INTEGER == 2000000000

\* Prices are fixed-point numbers with PriceScale decimal digits.
PriceScale == 6

(***************************************************************************)
(* Model records.  The fields the program computes on are kept; the        *)
(* pass-through metadata of ModelSchema (architecture, top_provider, ...)  *)
(* is not.                                                                 *)
(***************************************************************************)
ModelKeys == {"id", "name", "description", "context_length", "created",
              "pricing", "supported_parameters"}

PricingKeys == {"prompt", "completion"}

PricingOptionalKeys == {"request", "image", "web_search", "internal_reasoning",
                        "input_cache_read", "input_cache_write"}

Rec(id, name, ctx, created, prompt, completion, params) ==
    [id |-> id, name |-> name, description |-> <<>>, context_length |-> ctx,
     created |-> created,
     pricing |-> [prompt |-> prompt, completion |-> completion],
     supported_parameters |-> params]


(***************************************************************************)
(* JavaScript numbers, as far as the program needs them: a fixed-point     *)
(* value, or NaN.  Every comparison with NaN is false.                     *)
(***************************************************************************)
NaN == [nan |-> TRUE, v |-> 0]

Num(v) == [nan |-> FALSE, v |-> v]

NumEq(a, b) == ~a.nan /\ ~b.nan /\ a.v = b.v

NumLt(a, b) == ~a.nan /\ ~b.nan /\ a.v < b.v

NumGt(a, b) == ~a.nan /\ ~b.nan /\ a.v > b.v

NumGe(a, b) == ~a.nan /\ ~b.nan /\ a.v >= b.v

NumLe(a, b) == ~a.nan /\ ~b.nan /\ a.v <= b.v

RECURSIVE Pow10(_)
Pow10(n) == IF n <= 0 THEN 1 ELSE 10 * Pow10(n - 1)

(***************************************************************************)
(* Strings.                                                                *)
(***************************************************************************)
Digits == {"0", "1", "2", "3", "4", "5", "6", "7", "8", "9"}

DigitVal(c) ==
    CASE c = "0" -> 0 [] c = "1" -> 1 [] c = "2" -> 2 [] c = "3" -> 3
      [] c = "4" -> 4 [] c = "5" -> 5 [] c = "6" -> 6 [] c = "7" -> 7
      [] c = "8" -> 8 [] c = "9" -> 9

\* The UTF-16 code unit of a character of the model's alphabet.
CodeUnit(c) ==
    CASE c = " " -> 32 [] c = "-" -> 45 [] c = "." -> 46 [] c = "/" -> 47
      [] c \in Digits -> 48 + DigitVal(c)
      [] c = "A" -> 65 [] c = "B" -> 66 [] c = "G" -> 71 [] c = "N" -> 78
      [] c = "Z" -> 90
      [] c = "a" -> 97 [] c = "b" -> 98 [] c = "e" -> 101 [] c = "g" -> 103
      [] c = "h" -> 104 [] c = "l" -> 108 [] c = "m" -> 109 [] c = "n" -> 110
      [] c = "o" -> 111 [] c = "p" -> 112 [] c = "r" -> 114 [] c = "t" -> 116
      [] c = "u" -> 117 [] c = "x" -> 120 [] c = "z" -> 122

LowerChar(c) ==
    CASE c = "A" -> "a" [] c = "B" -> "b" [] c = "G" -> "g" [] c = "N" -> "n"
      [] c = "Z" -> "z" [] OTHER -> c

\* String.prototype.toLowerCase
toLowerCase(s) == [i \in 1..Len(s) |-> LowerChar(s[i])]

\* String.prototype.includes
includes(s, t) ==
    \E i \in 0..(Len(s) - Len(t)) : \A j \in 1..Len(t) : s[i + j] = t[j]

\* s < t on strings: lexicographic on code units, a proper prefix being smaller.
RECURSIVE StrLtFrom(_, _, _)
StrLtFrom(s, t, i) ==
    IF i > Len(t) THEN FALSE
    ELSE IF i > Len(s) THEN TRUE
    ELSE IF CodeUnit(s[i]) # CodeUnit(t[i]) THEN CodeUnit(s[i]) < CodeUnit(t[i])
    ELSE StrLtFrom(s, t, i + 1)

StrLt(s, t) == StrLtFrom(s, t, 1)

(***************************************************************************)
(* parseFloat: optional white space, an optional sign, digits, an optional *)
(* point and digits; whatever follows is ignored; NaN when there is no     *)
(* digit.  (Exponents and "Infinity" are outside the model's alphabet.)    *)
(* The value keeps PriceScale fraction digits.                             *)
(***************************************************************************)
RECURSIVE SkipSpace(_, _)
SkipSpace(s, i) == IF i <= Len(s) /\ s[i] = " " THEN SkipSpace(s, i + 1) ELSE i

RECURSIVE DigitsEnd(_, _)
DigitsEnd(s, i) == IF i <= Len(s) /\ s[i] \in Digits THEN DigitsEnd(s, i + 1) ELSE i

\* The value of the digits s[i .. j-1] read as an integer.
RECURSIVE IntOf(_, _, _)
IntOf(s, i, j) == IF j <= i THEN 0 ELSE 10 * IntOf(s, i, j - 1) + DigitVal(s[j - 1])

\* The value of the fraction digits s[i .. j-1], in units of 10^-PriceScale.
RECURSIVE FracOf(_, _, _, _)
FracOf(s, i, j, k) ==
    IF i >= j \/ k > PriceScale THEN 0
    ELSE DigitVal(s[i]) * Pow10(PriceScale - k) + FracOf(s, i + 1, j, k + 1)

parseFloat(s) ==
    LET i0 == SkipSpace(s, 1)
        signed == i0 <= Len(s) /\ s[i0] \in {"-", "+"}
        sgn == IF signed /\ s[i0] = "-" THEN -1 ELSE 1
        i1 == IF signed THEN i0 + 1 ELSE i0
        i2 == DigitsEnd(s, i1)
        hasDot == i2 <= Len(s) /\ s[i2] = "."
        i3 == IF hasDot THEN DigitsEnd(s, i2 + 1) ELSE i2
        nFrac == IF hasDot THEN i3 - (i2 + 1) ELSE 0
    IN  IF (i2 - i1) + nFrac = 0 THEN NaN
        ELSE Num(sgn * (IntOf(s, i1, i2) * Pow10(PriceScale)
                        + (IF hasDot THEN FracOf(s, i2 + 1, i3, 1) ELSE 0)))

\* An integer as a JavaScript number, in the fixed-point unit.
JSInt(n) == Num(n * Pow10(PriceScale))

\* getEffectivePrice without the rule of the sentinel.
getEffectivePricePlain(priceStr, modelId) == parseFloat(priceStr)

getEffectivePrice(priceStr, modelId) ==
    IF modelId = AUTO_ID THEN Num(MAX_SAFE_INTEGER) ELSE parseFloat(priceStr)


(***************************************************************************)
(* JSON text and the schemas.  A text is the serialisation of a value, or  *)
(* no JSON at all.  A JSON object is a record; a key it lacks is outside   *)
(* its DOMAIN.  The schemas check that the required keys are there and     *)
(* drop the keys they do not know (the types of the values are not         *)
(* modelled).                                                              *)
(***************************************************************************)
Garbage == [kind |-> "garbage", value |-> <<>>]

JSON_stringify(v) == [kind |-> "json", value |-> v]

\* JSON.parse, and response.json(): throws on a text that is no JSON.
JSON_parse(text) ==
    IF text.kind = "json" THEN [ok |-> TRUE, value |-> text.value]
    ELSE [ok |-> FALSE, value |-> <<>>]

Restrict(f, keys) == [k \in (DOMAIN f) \cap keys |-> f[k]]

PricingSchema_ok(p) == PricingKeys \subseteq DOMAIN p

PricingSchema_parse(p) == Restrict(p, PricingKeys \cup PricingOptionalKeys)

ModelSchema_ok(m) ==
    /\ ModelKeys \subseteq DOMAIN m
    /\ PricingSchema_ok(m.pricing)

ModelSchema_parse(m) ==
    [k \in ModelKeys |-> IF k = "pricing" THEN PricingSchema_parse(m[k]) ELSE m[k]]

\* OpenRouterModelsSchema.parse: [ok, value]; ok = FALSE stands for the ZodError.
OpenRouterModelsSchema_parse(json) ==
    IF /\ "data" \in DOMAIN json
       /\ \A i \in 1..Len(json.data) : ModelSchema_ok(json.data[i])
    THEN [ok |-> TRUE,
          value |-> [data |-> [i \in 1..Len(json.data) |-> ModelSchema_parse(json.data[i])]]]
    ELSE [ok |-> FALSE, value |-> <<>>]

(***************************************************************************)
(* The cache file.                                                         *)
(*   access "ok"     : stat and read succeed                               *)
(*          "noread" : stat succeeds, readTextFile throws PermissionDenied *)
(*          "nostat" : stat, read and write throw PermissionDenied         *)
(***************************************************************************)
NoFile == [exists |-> FALSE, content |-> Garbage, mtime |-> 0, access |-> "ok"]

File(content, mtime, access) ==
    [exists |-> TRUE, content |-> content, mtime |-> mtime, access |-> access]

\* Deno.readTextFile(CACHE_FILE), JSON.parse and OpenRouterModelsSchema.parse, as
\* lines 125-127 and 170-171 chain them: [ok, data].
ReadCache(file) ==
    IF ~file.exists \/ file.access # "ok" THEN [ok |-> FALSE, data |-> <<>>]
    ELSE LET j == JSON_parse(file.content)
         IN  IF ~j.ok THEN [ok |-> FALSE, data |-> <<>>]
             ELSE LET z == OpenRouterModelsSchema_parse(j.value)
                  IN  IF z.ok THEN [ok |-> TRUE, data |-> z.value.data]
                      ELSE [ok |-> FALSE, data |-> <<>>]


(***************************************************************************)
(* What the exploration of fetchModels draws from.                         *)
(***************************************************************************)
RecA == Rec(<<"a">>, <<"A","l","p","h","a">>, 8, 1, <<"0">>, <<"0">>, <<"tools">>)

RecB == Rec(<<"b">>, <<"B","e","t","a">>, 32, 2, <<"0",".","0","0","2">>, <<"0",".","0","1">>, <<>>)

\* RecA as the API may send it: with an optional pricing key, and with keys the
\* schemas do not know.
RecARaw ==
    [id |-> RecA.id, name |-> RecA.name, description |-> RecA.description,
     context_length |-> RecA.context_length, created |-> RecA.created,
     pricing |-> [prompt |-> <<"0">>, completion |-> <<"0">>, request |-> <<"0">>,
                  discount |-> <<"0">>],
     supported_parameters |-> RecA.supported_parameters, links |-> <<>>]

\* RecB without its pricing.completion: fails ModelSchema.
RecBBad ==
    [id |-> RecB.id, name |-> RecB.name, description |-> RecB.description,
     context_length |-> RecB.context_length, created |-> RecB.created,
     pricing |-> [prompt |-> RecB.pricing.prompt],
     supported_parameters |-> RecB.supported_parameters]

ValidBodies == {[data |-> <<RecA, RecB>>], [data |-> <<RecB>>], [data |-> <<RecARaw>>]}

InvalidBodies == {[data |-> <<RecA, RecBBad>>], [error |-> <<"x">>]}

\* What fetch(API_URL) may come to: a transport failure (fetch rejects), or a
\* response with its status and the text of its body.
NetResponses ==
    {[transport |-> FALSE, ok |-> FALSE, body |-> Garbage],
     [transport |-> TRUE, ok |-> FALSE, body |-> Garbage],
     [transport |-> TRUE, ok |-> TRUE, body |-> Garbage]}
    \cup {[transport |-> TRUE, ok |-> TRUE, body |-> JSON_stringify(b)] :
            b \in ValidBodies \cup InvalidBodies}

InitContents ==
    {Garbage, JSON_stringify([data |-> <<RecA>>]), JSON_stringify([data |-> <<RecA, RecBBad>>])}

InitMtimes == {0, 12, 24, 36}

\* The exploration starts when a file of mtime 0 has just reached the expiration.
InitNow == CACHE_EXPIRATION_HOURS

TickHours == {12, 24}

AccessModes == {"ok", "noread", "nostat"}

NoResult == [kind |-> "none", data |-> <<>>, via |-> "none", at |-> 0]

Returned(data, via, at) == [kind |-> "returned", data |-> data, via |-> via, at |-> at]

\* Deno.exit(1), and the uncaught rejection of main(): both end the process with
\* exit status 1.
Exited(via, at) == [kind |-> "exit1", data |-> <<>>, via |-> via, at |-> at]

NoNet == [status |-> "none", validated |-> <<>>, write |-> "none"]

NoPrev == [result |-> NoResult, hadCache |-> FALSE, net |-> NoNet]

Count(seq, e) == Cardinality({i \in 1..Len(seq) : seq[i] = e})

(***************************************************************************)
(* fetchModels, one action per awaited step.                               *)
(***************************************************************************)
InitFetch ==
    /\ now = InitNow
    /\ \/ /\ cacheFile = NoFile
          /\ dirExists \in BOOLEAN
       \/ /\ cacheFile \in {File(c, t, a) : c \in InitContents, t \in InitMtimes, a \in AccessModes}
          /\ dirExists = TRUE
    /\ pc = "idle"
    /\ forceRefresh = FALSE
    /\ net = NoNet
    /\ startFile = NoFile
    /\ log = <<>>
    /\ result = NoResult
    /\ prev = NoPrev

\* main calls fetchModels(args["force-refresh"]).
Start(force) ==
    /\ pc = "idle"
    /\ pc' = "mkdir"
    /\ forceRefresh' = force
    /\ net' = NoNet
    /\ startFile' = cacheFile
    /\ log' = <<>>
    /\ result' = NoResult
    /\ prev' = [result |-> result, hadCache |-> startFile.exists, net |-> net]
    /\ UNCHANGED <<now, dirExists, cacheFile>>
    /\ UNCHANGED pureVars

\* await Deno.mkdir(CACHE_DIR, { recursive: true }), outside every try: when it
\* throws, main() rejects and the process ends with status 1.
Mkdir(succeeds) ==
    /\ pc = "mkdir"
    /\ log' = Append(log, "mkdir")
    /\ IF dirExists \/ succeeds
       THEN /\ dirExists' = TRUE
            /\ pc' = "stat"
            /\ UNCHANGED result
       ELSE /\ pc' = "idle"
            /\ result' = Exited("mkdir", now)
            /\ UNCHANGED dirExists
    /\ UNCHANGED <<now, cacheFile, forceRefresh, net, startFile, prev>>
    /\ UNCHANGED pureVars

ageHours == now - cacheFile.mtime

\* StatCheck with the comparison of the age turned around.
StatCheckReversed ==
    /\ pc = "stat"
    /\ log' = Append(log, "stat")
    /\ pc' = IF /\ cacheFile.exists
                /\ cacheFile.access # "nostat"
                /\ ~forceRefresh
                /\ ageHours > CACHE_EXPIRATION_HOURS
             THEN "read" ELSE "fetch"
    /\ UNCHANGED <<now, dirExists, cacheFile, forceRefresh, net, startFile, result, prev>>
    /\ UNCHANGED pureVars

\* Lines 117-123 and the catch of 129-139: stat, the age, the test of the fresh
\* path.  A throw of stat (NotFound or not) leads to the network path.
StatCheck ==
    /\ pc = "stat"
    /\ log' = Append(log, "stat")
    /\ pc' = IF /\ cacheFile.exists
                /\ cacheFile.access # "nostat"
                /\ ~forceRefresh
                /\ ageHours < CACHE_EXPIRATION_HOURS
             THEN "read" ELSE "fetch"
    /\ UNCHANGED <<now, dirExists, cacheFile, forceRefresh, net, startFile, result, prev>>
    /\ UNCHANGED pureVars

\* Lines 124-127 and the catch of 129-139.
FreshRead ==
    /\ pc = "read"
    /\ log' = Append(log, "readTextFile")
    /\ LET r == ReadCache(cacheFile)
       IN  IF r.ok
           THEN /\ result' = Returned(r.data, "cache", now)
                /\ pc' = "idle"
           ELSE /\ pc' = "fetch"
                /\ UNCHANGED result
    /\ UNCHANGED <<now, dirExists, cacheFile, forceRefresh, net, startFile, prev>>
    /\ UNCHANGED pureVars

\* Lines 143-148: the request, the status, the body and its validation.
Fetch(resp) ==
    /\ pc = "fetch"
    /\ log' = Append(log, "fetch")
    /\ LET j == JSON_parse(resp.body)
           z == OpenRouterModelsSchema_parse(j.value)
       IN  IF resp.transport /\ resp.ok /\ j.ok /\ z.ok
           THEN /\ net' = [status |-> "ok", validated |-> z.value, write |-> "none"]
                /\ pc' = "write"
           ELSE /\ net' = [status |-> "failed", validated |-> <<>>, write |-> "none"]
                /\ pc' = "stale"
    /\ UNCHANGED <<now, dirExists, cacheFile, forceRefresh, startFile, result, prev>>
    /\ UNCHANGED pureVars

WriteOutcomes ==
    IF cacheFile.exists /\ cacheFile.access = "nostat" THEN {"denied"}
    ELSE {"ok", "denied", "partial"}

\* WriteCache that tries the write again when the file cannot be opened.
WriteCacheRetry(outcome) ==
    /\ pc = "write"
    /\ outcome \in WriteOutcomes
    /\ log' = Append(log, "writeTextFile")
    /\ net' = [net EXCEPT !.write = outcome]
    /\ LET access == IF cacheFile.exists THEN cacheFile.access ELSE "ok"
       IN  CASE outcome = "ok" ->
                 /\ cacheFile' = File(JSON_stringify(net.validated), now, access)
                 /\ result' = Returned(net.validated.data, "network", now)
                 /\ pc' = "idle"
             [] outcome = "denied" ->
                 /\ pc' = "write"
                 /\ UNCHANGED <<cacheFile, result>>
             [] outcome = "partial" ->
                 /\ cacheFile' = File(Garbage, now, access)
                 /\ pc' = "stale"
                 /\ UNCHANGED result
    /\ UNCHANGED <<now, dirExists, forceRefresh, startFile, prev>>
    /\ UNCHANGED pureVars

\* WriteCache that returns the batch and leaves the write out.
WriteCacheSkipped(outcome) ==
    /\ pc = "write"
    /\ outcome \in WriteOutcomes
    /\ log' = Append(log, "writeTextFile")
    /\ net' = [net EXCEPT !.write = outcome]
    /\ result' = Returned(net.validated.data, "network", now)
    /\ pc' = "idle"
    /\ UNCHANGED <<now, dirExists, cacheFile, forceRefresh, startFile, prev>>
    /\ UNCHANGED pureVars

\* Lines 149-153, inside the try of the network path: a throw of writeTextFile
\* lands in the catch of line 154.  "denied": the file cannot be opened and stays
\* as it was; "partial": it was truncated and the write broke off.
WriteCache(outcome) ==
    /\ pc = "write"
    /\ outcome \in WriteOutcomes
    /\ log' = Append(log, "writeTextFile")
    /\ net' = [net EXCEPT !.write = outcome]
    /\ LET access == IF cacheFile.exists THEN cacheFile.access ELSE "ok"
       IN  CASE outcome = "ok" ->
                 /\ cacheFile' = File(JSON_stringify(net.validated), now, access)
                 /\ result' = Returned(net.validated.data, "network", now)
                 /\ pc' = "idle"
             [] outcome = "denied" ->
                 /\ pc' = "stale"
                 /\ UNCHANGED <<cacheFile, result>>
             [] outcome = "partial" ->
                 /\ cacheFile' = File(Garbage, now, access)
                 /\ pc' = "stale"
                 /\ UNCHANGED result
    /\ UNCHANGED <<now, dirExists, forceRefresh, startFile, prev>>
    /\ UNCHANGED pureVars

\* StaleFallback that refuses a cache older than the expiration.
StaleFallbackFreshOnly ==
    /\ pc = "stale"
    /\ log' = Append(log, "readTextFile")
    /\ LET r == ReadCache(cacheFile)
       IN  result' = IF r.ok /\ ageHours < CACHE_EXPIRATION_HOURS
                     THEN Returned(r.data, "stale", now) ELSE Exited("stale", now)
    /\ pc' = "idle"
    /\ UNCHANGED <<now, dirExists, cacheFile, forceRefresh, net, startFile, prev>>
    /\ UNCHANGED pureVars

\* Lines 154-176: the catch of the network path.
StaleFallback ==
    /\ pc = "stale"
    /\ log' = Append(log, "readTextFile")
    /\ LET r == ReadCache(cacheFile)
       IN  result' = IF r.ok THEN Returned(r.data, "stale", now) ELSE Exited("stale", now)
    /\ pc' = "idle"
    /\ UNCHANGED <<now, dirExists, cacheFile, forceRefresh, net, startFile, prev>>
    /\ UNCHANGED pureVars

\* Time passes between two invocations.
Tick(h) ==
    /\ pc = "idle"
    /\ now + h <= MaxNow
    /\ now' = now + h
    /\ UNCHANGED <<dirExists, cacheFile, pc, forceRefresh, net, startFile, log, result, prev>>
    /\ UNCHANGED pureVars

(***************************************************************************)
(* Properties of fetchModels.                                              *)
(***************************************************************************)
\* The running invocation has ended (returned, or ended the process).
Finished == pc = "idle" /\ result.kind # "none"

\* The cache file as the invocation found it decodes to a valid batch.
StartValid == ReadCache(startFile).ok

\* Its age, as line 121 computes it (Date.now() does not move within an invocation).
StartAge == now - startFile.mtime

ReadsBefore(e) == {i \in 1..Len(log) : log[i] = "readTextFile" /\ \A j \in 1..i : log[j] # e}

Positions(e) == {i \in 1..Len(log) : log[i] = e}

Before(e, f) == \A i \in Positions(e), j \in Positions(f) : i < j

\* C1: an invocation without forced refresh that finds a cache file younger than 24
\* hours whose content parses and validates returns the cached batch, makes no
\* network request and writes no cache.
C1_FreshCacheServed ==
    (Finished /\ ~forceRefresh /\ StartValid /\ StartAge < CACHE_EXPIRATION_HOURS)
        => /\ result.kind = "returned"
           /\ result.via = "cache"
           /\ result.data = ReadCache(startFile).data
           /\ Count(log, "fetch") = 0
           /\ Count(log, "writeTextFile") = 0
           /\ cacheFile = startFile

C1_Witness ==
    /\ Finished /\ ~forceRefresh /\ StartValid
    /\ StartAge = 12
    /\ result.via = "cache"
    /\ result.data = <<RecA>>

\* C2: when the network path fails (transport, status, or validation of the body)
\* and a parseable, valid cache file exists, the invocation returns that cached
\* batch, whatever the age of the cache, and does not end the process.
C2_StaleFallbackServed ==
    (Finished /\ net.status = "failed" /\ StartValid)
        => /\ result.kind = "returned"
           /\ result.via = "stale"
           /\ result.data = ReadCache(startFile).data

C2_Witness ==
    /\ Finished /\ net.status = "failed" /\ StartValid
    /\ StartAge >= CACHE_EXPIRATION_HOURS
    /\ result.kind = "returned"
    /\ result.data = <<RecA>>

\* C3: when the request succeeds and the body validates, a failing cache write does
\* not abort: the invocation still returns the batch it fetched.
C3_WriteFailureAbsorbed ==
    (Finished /\ net.status = "ok" /\ net.write \in {"denied", "partial"})
        => /\ result.kind = "returned"
           /\ result.data = net.validated.data

\* C4: the process ends with a non-zero status exactly when the network path failed
\* (request, status or validation) and the stale fallback failed too; every other
\* error is absorbed and the invocation returns a batch.
C4_ExitOnlyWhenExhausted ==
    Finished =>
        /\ result.kind = "exit1" <=> (net.status = "failed" /\ ~ReadCache(cacheFile).ok)
        /\ result.kind # "exit1" => result.kind = "returned"

\* C5 as stated: at most one request, one read of the cache content and one write,
\* in the order check of the cache, request, write.
C5_AtMostOneOfEach ==
    /\ Count(log, "fetch") <= 1
    /\ Count(log, "readTextFile") <= 1
    /\ Count(log, "writeTextFile") <= 1
    /\ Before("stat", "fetch")
    /\ Before("fetch", "writeTextFile")

\* C5, amended: at most one request and at most one write, the write after the
\* request; at most two reads of the cache content, at most one before the request
\* (the fresh path) and at most one after it (the stale fallback), the latter only
\* when the request, the validation or the write failed, and as the last step.
C5_AtMostOneRequestTwoReads ==
    /\ Count(log, "fetch") <= 1
    /\ Count(log, "writeTextFile") <= 1
    /\ Before("fetch", "writeTextFile")
    /\ Before("stat", "readTextFile") /\ Before("stat", "fetch")
    /\ Cardinality(ReadsBefore("fetch")) <= 1
    /\ Cardinality(Positions("readTextFile") \ ReadsBefore("fetch")) <= 1
    /\ \A i \in Positions("readTextFile") \ ReadsBefore("fetch") :
           /\ i = Len(log)
           /\ net.status = "failed" \/ net.write \in {"denied", "partial"}

C5_Witness ==
    /\ Finished
    /\ log = <<"mkdir", "stat", "readTextFile", "fetch", "readTextFile">>
    /\ result.kind = "exit1"

\* The invocation before the running one found no cache file and its request
\* came back with a valid body; the running one follows it at once.
AfterFirstFetch ==
    /\ prev.result.kind # "none"
    /\ ~prev.hadCache
    /\ prev.net.status = "ok"
    /\ prev.result.at = now

C7_ForcedRefreshFetchesFirst ==
    (Finished /\ forceRefresh) =>
        /\ ReadsBefore("fetch") = {}
        /\ result.via # "cache"
        /\ result.kind = "returned" => Count(log, "fetch") = 1
        /\ net.status = "ok"
               => /\ result.kind = "returned"
                  /\ result.via = "network"
                  /\ result.data = net.validated.data
                  /\ cacheFile.content = JSON_stringify(net.validated)
        /\ result.via = "stale" => net.status = "failed"

\* The invocation went through the cache-fresh path (lines 117-128) and failed on
\* it: no file, a stat that throws, or a fresh file under no forced refresh whose
\* content cannot be read, parsed or validated.
FreshPathFailed ==
    /\ Count(log, "stat") = 1
    /\ \/ ~startFile.exists
       \/ startFile.access = "nostat"
       \/ ~forceRefresh /\ StartAge < CACHE_EXPIRATION_HOURS /\ ~StartValid

\* C12, first half: after a failure on the cache-fresh path the invocation always
\* makes the network request.
C12_ProceedsToRequest ==
    (Finished /\ FreshPathFailed) => Count(log, "fetch") = 1

\* C12: a failure on the cache-fresh path (no file, stat failure, unparseable or
\* invalid content of a fresh cache without forced refresh) is never fatal: the
\* invocation goes on to the network request, and when the request succeeds and
\* its body validates, the invocation returns the network batch.
C12_FreshFailureThenNetworkBatch ==
    (Finished /\ FreshPathFailed) =>
        /\ Count(log, "fetch") = 1
        /\ net.status = "ok"
               => /\ result.kind = "returned"
                  /\ result.via = "network"
                  /\ result.data = net.validated.data

\* An invocation is running or has ended, and the cache file does not hold what it
\* held when that invocation began.
CacheChanged ==
    /\ pc # "idle" \/ Finished
    /\ \/ cacheFile.exists # startFile.exists
       \/ cacheFile.content # startFile.content

\* C13, the part about the cause: the cache content differs from what the invocation
\* found only after a request that succeeded with a validated body and a call of
\* Deno.writeTextFile, and no invocation deletes the file.
C13_ChangesOnlyAfterValidatedFetch ==
    /\ CacheChanged => (net.status = "ok" /\ Count(log, "writeTextFile") = 1)
    /\ (pc # "idle" \/ Finished) => (startFile.exists => cacheFile.exists)

\* C13: the cache content changes only within an invocation whose request succeeded
\* and whose body validated, and is then exactly that validated batch; an invocation
\* that ends on the cache-fresh path, on the stale-fallback path or in a non-zero
\* exit leaves the content unchanged, and no invocation deletes the cache file.
C13_CacheChangesOnlyToValidatedBatch ==
    /\ CacheChanged
           => /\ net.status = "ok"
              /\ cacheFile.content = JSON_stringify(net.validated)
    /\ (Finished /\ (result.via \in {"cache", "stale"} \/ result.kind = "exit1"))
           => ~CacheChanged
    /\ (pc # "idle" \/ Finished) => (startFile.exists => cacheFile.exists)

(***************************************************************************)
(* filterModels and sortModels.                                            *)
(*                                                                         *)
(* args: positional is args._; an option that was not given is Unset (its  *)
(* value is undefined, so `!= null` fails); a given numeric option holds   *)
(* the number parseArgs made of it.                                        *)
(***************************************************************************)
Unset == [set |-> FALSE, num |-> NaN]

Given(str) == [set |-> TRUE, num |-> parseFloat(str)]

\* checkParam(p)(m): some supported parameter of m is in p.
checkParam(p, m) ==
    \E i \in 1..Len(m.supported_parameters) : m.supported_parameters[i] \in p

\* if (option) { filtered = filtered.filter(keep) }
filterIf(active, ms, keep(_)) == IF active THEN SelectSeq(ms, keep) ELSE ms

\* filterModels with the bounds of the context taken exclusive.
filterModelsExclusive(ms, a) ==
    LET searchTerm == IF a.positional = <<>> THEN <<>> ELSE toLowerCase(a.positional[1])
        price(m) == getEffectivePrice(m.pricing.prompt, m.id)
        f1 == filterIf(searchTerm # <<>>, ms,
                       LAMBDA m : \/ includes(toLowerCase(m.id), searchTerm)
                                  \/ includes(toLowerCase(m.name), searchTerm)
                                  \/ includes(toLowerCase(m.description), searchTerm))
        f2 == filterIf(a.free, f1, LAMBDA m : NumEq(price(m), Num(0)))
        f3 == filterIf(a.min_prompt_price.set, f2,
                       LAMBDA m : NumGe(price(m), a.min_prompt_price.num))
        f4 == filterIf(a.max_prompt_price.set, f3,
                       LAMBDA m : NumLe(price(m), a.max_prompt_price.num))
        f5 == filterIf(a.min_context.set, f4,
                       LAMBDA m : NumGt(JSInt(m.context_length), a.min_context.num))
        f6 == filterIf(a.max_context.set, f5,
                       LAMBDA m : NumLt(JSInt(m.context_length), a.max_context.num))
        f7 == filterIf(a.supports_reasoning, f6,
                       LAMBDA m : checkParam({"reasoning", "include_reasoning"}, m))
        f8 == filterIf(a.supports_tools, f7,
                       LAMBDA m : checkParam({"tools", "tool_choice"}, m))
        f9 == filterIf(a.supports_structured_output, f8,
                       LAMBDA m : checkParam({"structured_outputs"}, m))
        f10 == filterIf(a.supports_response_format, f9,
                        LAMBDA m : checkParam({"response_format"}, m))
    IN  f10

filterModels(ms, a) ==
    LET searchTerm == IF a.positional = <<>> THEN <<>> ELSE toLowerCase(a.positional[1])
        price(m) == getEffectivePrice(m.pricing.prompt, m.id)
        f1 == filterIf(searchTerm # <<>>, ms,
                       LAMBDA m : \/ includes(toLowerCase(m.id), searchTerm)
                                  \/ includes(toLowerCase(m.name), searchTerm)
                                  \/ includes(toLowerCase(m.description), searchTerm))
        f2 == filterIf(a.free, f1, LAMBDA m : NumEq(price(m), Num(0)))
        f3 == filterIf(a.min_prompt_price.set, f2,
                       LAMBDA m : NumGe(price(m), a.min_prompt_price.num))
        f4 == filterIf(a.max_prompt_price.set, f3,
                       LAMBDA m : NumLe(price(m), a.max_prompt_price.num))
        f5 == filterIf(a.min_context.set, f4,
                       LAMBDA m : NumGe(JSInt(m.context_length), a.min_context.num))
        f6 == filterIf(a.max_context.set, f5,
                       LAMBDA m : NumLe(JSInt(m.context_length), a.max_context.num))
        f7 == filterIf(a.supports_reasoning, f6,
                       LAMBDA m : checkParam({"reasoning", "include_reasoning"}, m))
        f8 == filterIf(a.supports_tools, f7,
                       LAMBDA m : checkParam({"tools", "tool_choice"}, m))
        f9 == filterIf(a.supports_structured_output, f8,
                       LAMBDA m : checkParam({"structured_outputs"}, m))
        f10 == filterIf(a.supports_response_format, f9,
                        LAMBDA m : checkParam({"response_format"}, m))
    IN  f10

SortKeys == {"prompt_price", "completion_price", "context", "created", "name"}

\* keyMap[sortBy](m)
keyMap(sortBy, m) ==
    CASE sortBy = "prompt_price" -> getEffectivePrice(m.pricing.prompt, m.id)
      [] sortBy = "completion_price" -> getEffectivePrice(m.pricing.completion, m.id)
      [] sortBy = "context" -> JSInt(m.context_length)
      [] sortBy = "created" -> JSInt(m.created)
      [] sortBy = "name" -> toLowerCase(m.name)

\* valA < valB, on numbers or on strings as the key has it.
KeyLt(sortBy, x, y) == IF sortBy = "name" THEN StrLt(x, y) ELSE NumLt(x, y)

\* The comparator of lines 254-264.
compare(a, b, sortBy, desc) ==
    LET valA == keyMap(sortBy, a)
        valB == keyMap(sortBy, b)
    IN  IF KeyLt(sortBy, valA, valB) THEN (IF desc THEN 1 ELSE -1)
        ELSE IF KeyLt(sortBy, valB, valA) THEN (IF desc THEN -1 ELSE 1)
        ELSE 0

\* Array.prototype.sort is stable: an element goes behind the last one that the
\* comparator does not put after it.
RECURSIVE InsertPos(_, _, _, _, _)
InsertPos(sorted, x, i, sortBy, desc) ==
    IF i >= 1 /\ compare(sorted[i], x, sortBy, desc) > 0
    THEN InsertPos(sorted, x, i - 1, sortBy, desc)
    ELSE i

RECURSIVE StableSort(_, _, _, _)
StableSort(ms, n, sortBy, desc) ==
    IF n = 0 THEN <<>>
    ELSE LET sorted == StableSort(ms, n - 1, sortBy, desc)
             i == InsertPos(sorted, ms[n], Len(sorted), sortBy, desc)
         IN  SubSeq(sorted, 1, i) \o <<ms[n]>> \o SubSeq(sorted, i + 1, Len(sorted))

Reverse(seq) == [i \in 1..Len(seq) |-> seq[Len(seq) + 1 - i]]

\* sortModels that sorts ascending and reverses the result when desc is set.
sortModelsReversing(ms, sortBy, desc) ==
    IF sortBy \notin SortKeys THEN ms
    ELSE IF desc THEN Reverse(StableSort(ms, Len(ms), sortBy, FALSE))
    ELSE StableSort(ms, Len(ms), sortBy, FALSE)

sortModels(ms, sortBy, desc) ==
    IF sortBy \notin SortKeys THEN ms
    ELSE StableSort(ms, Len(ms), sortBy, desc)

(***************************************************************************)
(* What the exploration of filterModels and sortModels draws from.         *)
(***************************************************************************)
SeqsUpTo(S, n) == UNION {[1..k -> S] : k \in 0..n}

Alpha == Rec(<<"a">>, <<"a","l","p","h","a">>, 8, 1, <<"0">>, <<"0">>, <<"tools">>)

Beta == Rec(<<"b">>, <<"B","e","t","a">>, 32, 2, <<"0",".","0","0","2">>,
            <<"0",".","0","1">>, <<"reasoning", "response_format">>)

Gamma == Rec(<<"g">>, <<"G","a","m","m","a">>, 8, 3, <<"0",".","0","0","0","0","0","1">>,
             <<"0",".","0","1">>, <<"structured_outputs", "tool_choice">>)

\* Equal to Alpha in every sort key, and another record.
Alpha2 == Rec(<<"z">>, <<"A","l","p","h","a">>, 8, 1, <<"0",".","0">>, <<"0">>,
              <<"temperature">>)

\* The sentinel as the API lists it, and with a prompt price of "0".
Auto == Rec(AUTO_ID, <<"A","u","t","o">>, 32, 2, <<"-","1">>, <<"-","1">>, <<>>)

AutoZero == Rec(AUTO_ID, <<"A","u","t","o">>, 32, 2, <<"0">>, <<"0">>, <<"tools">>)

\* A price that is no number.
NoPrice == Rec(<<"n">>, <<"N","a","n","o">>, 32, 3, <<"n","/","a">>, <<"0">>,
               <<"include_reasoning">>)

FilterRecs == {Alpha, Beta, Gamma, Alpha2, AutoZero, NoPrice}

\* Records whose prices parse to numbers, so that every key is ordered.
SortRecs == {Alpha, Beta, Gamma, Alpha2, Auto}

\* What parseArgs yields when no option is given.
DefaultArgs ==
    [positional |-> <<>>, free |-> FALSE,
     min_prompt_price |-> Unset, max_prompt_price |-> Unset,
     min_context |-> Unset, max_context |-> Unset,
     supports_reasoning |-> FALSE, supports_tools |-> FALSE,
     supports_structured_output |-> FALSE, supports_response_format |-> FALSE]

SupportFlags ==
    {<<FALSE, FALSE, FALSE, FALSE>>, <<TRUE, FALSE, FALSE, FALSE>>,
     <<FALSE, TRUE, FALSE, FALSE>>, <<FALSE, FALSE, TRUE, FALSE>>,
     <<FALSE, FALSE, FALSE, TRUE>>, <<TRUE, TRUE, TRUE, TRUE>>}

ArgSets ==
    {[positional |-> pos, free |-> fr,
      min_prompt_price |-> minp, max_prompt_price |-> maxp,
      min_context |-> minc, max_context |-> maxc,
      supports_reasoning |-> sup[1], supports_tools |-> sup[2],
      supports_structured_output |-> sup[3], supports_response_format |-> sup[4]] :
        pos \in {<<>>, << <<"A">> >>},
        fr \in BOOLEAN,
        minp \in {Unset, Given(<<"0">>), Given(<<"0",".","0","0","0","0","0","1">>)},
        maxp \in {Unset, Given(<<"0",".","0","0","0","0","0","1">>)},
        minc \in {Unset, Given(<<"3","2">>)},
        maxc \in {Unset, Given(<<"8">>)},
        sup \in SupportFlags}

DefaultSort == [sortBy |-> "created", desc |-> FALSE]

SortBys == SortKeys \cup {"age"}

(***************************************************************************)
(* getHumanReadableAge.  The elapsed time is deltaSeconds = d.s + d.ms/1000 *)
(* (the timestamp is in whole seconds, the clock in milliseconds), so that *)
(* > and >= against a whole number of seconds are exact; Math.floor of a   *)
(* quotient by a whole number of seconds depends on d.s alone.  The        *)
(* returned string is kept by its parts: "~1 yr" is AgeText(TRUE, 1, "yr").*)
(***************************************************************************)
SecondsPerHour == 60 * 60

SecondsPerDay == 60 * 60 * 24

Unknown == [approx |-> FALSE, count |-> 0, unit |-> "Unknown", plural |-> FALSE]

\* `${approx ? "~" : ""}${count} ${unit}${count > 1 ? "s" : ""}`
AgeText(approx, count, unit) ==
    [approx |-> approx, count |-> count, unit |-> unit, plural |-> count > 1]

deltaSeconds(createdTimestamp, clk) == [s |-> clk.s - createdTimestamp, ms |-> clk.ms]

\* deltaSeconds > k and deltaSeconds >= k, k a whole number of seconds.
GtSeconds(d, k) == d.s > k \/ (d.s = k /\ d.ms > 0)

GeSeconds(d, k) == d.s >= k

\* getHumanReadableAge with >= at the thresholds of the years and the months.
getHumanReadableAgeInclusive(createdTimestamp, clk) ==
    IF createdTimestamp = 0 THEN Unknown
    ELSE LET d == deltaSeconds(createdTimestamp, clk)
         IN  IF GeSeconds(d, 365 * SecondsPerDay)
             THEN AgeText(TRUE, d.s \div (365 * SecondsPerDay), "yr")
             ELSE IF GeSeconds(d, 30 * SecondsPerDay)
             THEN AgeText(TRUE, d.s \div (30 * SecondsPerDay), "mn")
             ELSE IF GeSeconds(d, SecondsPerDay)
             THEN AgeText(FALSE, d.s \div SecondsPerDay, "day")
             ELSE IF GeSeconds(d, SecondsPerHour)
             THEN AgeText(FALSE, d.s \div SecondsPerHour, "hr")
             ELSE AgeText(FALSE, d.s \div 60, "min")

getHumanReadableAge(createdTimestamp, clk) ==
    IF createdTimestamp = 0 THEN Unknown
    ELSE LET d == deltaSeconds(createdTimestamp, clk)
         IN  IF GtSeconds(d, 365 * SecondsPerDay)
             THEN AgeText(TRUE, d.s \div (365 * SecondsPerDay), "yr")
             ELSE IF GtSeconds(d, 30 * SecondsPerDay)
             THEN AgeText(TRUE, d.s \div (30 * SecondsPerDay), "mn")
             ELSE IF GeSeconds(d, SecondsPerDay)
             THEN AgeText(FALSE, d.s \div SecondsPerDay, "day")
             ELSE IF GeSeconds(d, SecondsPerHour)
             THEN AgeText(FALSE, d.s \div SecondsPerHour, "hr")
             ELSE AgeText(FALSE, d.s \div 60, "min")

\* The clock of the exploration, late enough for every timestamp to be positive.
AgeNow == (MaxYears + 1) * 365 * SecondsPerDay

AgeThresholds == {60, SecondsPerHour, SecondsPerDay, 30 * SecondsPerDay, 365 * SecondsPerDay}

\* Elapsed seconds at, right below and right above the multiples of each threshold,
\* 29.9 days, and a timestamp ahead of the clock.
Elapses ==
    {k * t + e : k \in 0..MaxYears, t \in AgeThresholds, e \in {-1, 0, 1}}
    \cup {(299 * SecondsPerDay) \div 10}

Createds == {0} \cup {AgeNow - e : e \in Elapses}

Clocks == {[s |-> AgeNow, ms |-> ms] : ms \in {0, 1, 500}}

AgeIdle ==
    /\ createdTs = 0
    /\ clock = [s |-> 0, ms |-> 0]
    /\ age = Unknown

\* No invocation of fetchModels is explored.
FetchOff ==
    /\ now = InitNow
    /\ dirExists = FALSE
    /\ cacheFile = NoFile
    /\ pc = "off"
    /\ forceRefresh = FALSE
    /\ net = NoNet
    /\ startFile = NoFile
    /\ log = <<>>
    /\ result = NoResult
    /\ prev = NoPrev

\* No call of filterModels, sortModels or getHumanReadableAge is explored.
PureIdle ==
    /\ stage = "off"
    /\ models = <<>>
    /\ args = DefaultArgs
    /\ sortArgs = DefaultSort
    /\ out = <<>>
    /\ AgeIdle

Init == InitFetch /\ PureIdle

Next ==
    \/ \E force \in BOOLEAN : Start(force)
    \/ \E succeeds \in BOOLEAN : Mkdir(succeeds)
    \/ StatCheck
    \/ FreshRead
    \/ \E resp \in NetResponses : Fetch(resp)
    \/ \E outcome \in {"ok", "denied", "partial"} : WriteCache(outcome)
    \/ StaleFallback
    \/ \E h \in TickHours : Tick(h)

Spec == Init /\ [][Next]_vars

InitFilter ==
    /\ FetchOff
    /\ stage = "input"
    /\ models \in SeqsUpTo(FilterRecs, MaxFilterLen)
    /\ args = DefaultArgs
    /\ sortArgs = DefaultSort
    /\ out = <<>>
    /\ AgeIdle

\* main: filterModels(allModels, args)
Filter(a) ==
    /\ stage = "input"
    /\ stage' = "filtered"
    /\ args' = a
    /\ out' = filterModels(models, a)
    /\ UNCHANGED <<models, sortArgs>>
    /\ UNCHANGED ageVars
    /\ UNCHANGED fetchVars

NextFilter == \E a \in ArgSets : Filter(a)

SpecFilter == InitFilter /\ [][NextFilter]_vars

InitSort ==
    /\ FetchOff
    /\ stage = "input"
    /\ models \in SeqsUpTo(SortRecs, MaxLen)
    /\ args = DefaultArgs
    /\ sortArgs = DefaultSort
    /\ out = <<>>
    /\ AgeIdle

\* main: sortModels(filtered, args["sort-by"], args.desc)
Sort(sortBy, desc) ==
    /\ stage = "input"
    /\ stage' = "sorted"
    /\ sortArgs' = [sortBy |-> sortBy, desc |-> desc]
    /\ out' = sortModels(models, sortBy, desc)
    /\ UNCHANGED <<models, args>>
    /\ UNCHANGED ageVars
    /\ UNCHANGED fetchVars

NextSort == \E sortBy \in SortBys, desc \in BOOLEAN : Sort(sortBy, desc)

SpecSort == InitSort /\ [][NextSort]_vars

InitAge ==
    /\ FetchOff
    /\ stage = "input"
    /\ models = <<>>
    /\ args = DefaultArgs
    /\ sortArgs = DefaultSort
    /\ out = <<>>
    /\ createdTs \in Createds
    /\ clock \in Clocks
    /\ age = Unknown

\* outputAsTable / outputAsMarkdown: getHumanReadableAge(model.created)
RenderAge ==
    /\ stage = "input"
    /\ stage' = "rendered"
    /\ age' = getHumanReadableAge(createdTs, clock)
    /\ UNCHANGED <<models, args, sortArgs, out, createdTs, clock>>
    /\ UNCHANGED fetchVars

NextAge == RenderAge

SpecAge == InitAge /\ [][NextAge]_vars

(***************************************************************************)
(* Properties of filterModels.                                             *)
(***************************************************************************)
\* The prompt price of m parses to exactly 0 and m is not the sentinel.
IsFree(m) == NumEq(parseFloat(m.pricing.prompt), Num(0)) /\ m.id # AUTO_ID

SearchActive(a) == a.positional # <<>> /\ a.positional[1] # <<>>

Matches(m, term) ==
    \E field \in {m.id, m.name, m.description} : includes(toLowerCase(field), toLowerCase(term))

\* m satisfies every active filter of a; an option that is not set constrains nothing.
Satisfies(m, a) ==
    LET price == getEffectivePrice(m.pricing.prompt, m.id)
        ctx == JSInt(m.context_length)
        has(tokens) == \E i \in DOMAIN m.supported_parameters : m.supported_parameters[i] \in tokens
    IN  /\ SearchActive(a) => Matches(m, a.positional[1])
        /\ a.free => NumEq(price, Num(0))
        /\ a.min_prompt_price.set => NumGe(price, a.min_prompt_price.num)
        /\ a.max_prompt_price.set => NumLe(price, a.max_prompt_price.num)
        /\ a.min_context.set => NumGe(ctx, a.min_context.num)
        /\ a.max_context.set => NumLe(ctx, a.max_context.num)
        /\ a.supports_reasoning => has({"reasoning", "include_reasoning"})
        /\ a.supports_tools => has({"tools", "tool_choice"})
        /\ a.supports_structured_output => has({"structured_outputs"})
        /\ a.supports_response_format => has({"response_format"})

\* C9: filterModels returns exactly the records that satisfy all active filters, in
\* the order of the input; with no active filter it returns the input as it is.
C9_FilterIsConjunction ==
    stage = "filtered"
        => /\ out = SelectSeq(models, LAMBDA m : Satisfies(m, args))
           /\ args = DefaultArgs => out = models

C9_Witness ==
    /\ stage = "filtered"
    /\ args = [DefaultArgs EXCEPT !.min_context = Given(<<"3","2">>),
                                  !.min_prompt_price = Given(<<"0">>),
                                  !.supports_reasoning = TRUE]
    /\ models = <<NoPrice, Beta>>
    /\ out = <<Beta>>

(***************************************************************************)
(* Properties of sortModels.                                               *)
(***************************************************************************)
SameKey(sortBy, a, b) ==
    /\ ~KeyLt(sortBy, keyMap(sortBy, a), keyMap(sortBy, b))
    /\ ~KeyLt(sortBy, keyMap(sortBy, b), keyMap(sortBy, a))

\* C10: for a recognized key, sortModels returns a permutation of its input that is
\* ordered by the key, ascending or (desc) descending, and in which the records of
\* equal key stand in the order of the input, in either direction.
C10_SortIsStableEitherWay ==
    (stage = "sorted" /\ sortArgs.sortBy \in SortKeys) =>
        LET by == sortArgs.sortBy
        IN  /\ Len(out) = Len(models)
            /\ \A r \in SortRecs : Count(out, r) = Count(models, r)
            /\ \A i, j \in 1..Len(out) :
                   i < j => IF sortArgs.desc
                            THEN ~KeyLt(by, keyMap(by, out[i]), keyMap(by, out[j]))
                            ELSE ~KeyLt(by, keyMap(by, out[j]), keyMap(by, out[i]))
            /\ \A r \in SortRecs :
                   SelectSeq(out, LAMBDA m : SameKey(by, m, r))
                       = SelectSeq(models, LAMBDA m : SameKey(by, m, r))

\* Sorting "Beta", "alpha", "Gamma" by name, descending.
C10_Scenario ==
    /\ stage = "sorted"
    /\ sortArgs = [sortBy |-> "name", desc |-> TRUE]
    /\ models = <<Beta, Alpha, Gamma>>
    /\ out = <<Gamma, Beta, Alpha>>

\* Descending with a tie: the records of equal key keep the order of the input.
C10_Witness ==
    /\ stage = "sorted"
    /\ sortArgs = [sortBy |-> "name", desc |-> TRUE]
    /\ models = <<Alpha, Beta, Alpha2>>
    /\ out = <<Beta, Alpha, Alpha2>>

(***************************************************************************)
(* Properties of getHumanReadableAge.                                      *)
(***************************************************************************)
\* The elapsed time since created, in seconds and milliseconds.
ElapsedS == clock.s - createdTs

\* elapsed >= k seconds
ElapsedGe(k) == ElapsedS >= k

\* elapsed > k seconds
ElapsedGt(k) == ElapsedS > k \/ (ElapsedS = k /\ clock.ms > 0)

\* C11: getHumanReadableAge buckets the elapsed time by inclusive thresholds: from
\* 365 days on it renders years (exactly 365 days is "~1 yr"), else from 30 days on
\* months (exactly 30 days is "~1 mn"), else from 1 day on days (29.9 days is in
\* days), else from 1 hour on hours, else minutes; a timestamp of 0 is "Unknown".
C11_InclusiveBuckets ==
    stage = "rendered" =>
        IF createdTs = 0 THEN age = Unknown
        ELSE /\ age.unit = IF ElapsedGe(365 * SecondsPerDay) THEN "yr"
                           ELSE IF ElapsedGe(30 * SecondsPerDay) THEN "mn"
                           ELSE IF ElapsedGe(SecondsPerDay) THEN "day"
                           ELSE IF ElapsedGe(SecondsPerHour) THEN "hr"
                           ELSE "min"
             /\ (ElapsedS = 365 * SecondsPerDay /\ clock.ms = 0) => age = AgeText(TRUE, 1, "yr")
             /\ (ElapsedS = 30 * SecondsPerDay /\ clock.ms = 0) => age = AgeText(TRUE, 1, "mn")

\* C11 as the code has it: the thresholds of the years and of the months are
\* exclusive (more than 365 days renders years, else more than 30 days months, so
\* that exactly 365 days is "~12 mns" and exactly 30 days is "30 days"), those of
\* the days and of the hours inclusive, anything shorter renders minutes, 29.9 days
\* is "29 days" and a timestamp of 0 is "Unknown".
C11_ExclusiveYearMonthBuckets ==
    stage = "rendered" =>
        IF createdTs = 0 THEN age = Unknown
        ELSE /\ age.unit = IF ElapsedGt(365 * SecondsPerDay) THEN "yr"
                           ELSE IF ElapsedGt(30 * SecondsPerDay) THEN "mn"
                           ELSE IF ElapsedGe(SecondsPerDay) THEN "day"
                           ELSE IF ElapsedGe(SecondsPerHour) THEN "hr"
                           ELSE "min"
             /\ age.approx = (age.unit \in {"yr", "mn"})
             /\ (ElapsedS = 365 * SecondsPerDay /\ clock.ms = 0) => age = AgeText(TRUE, 12, "mn")
             /\ (ElapsedS = 30 * SecondsPerDay /\ clock.ms = 0) => age = AgeText(FALSE, 30, "day")
             /\ ElapsedS = (299 * SecondsPerDay) \div 10 => age = AgeText(FALSE, 29, "day")

\* A timestamp exactly 365 days old has been rendered, in months.
C11_Witness ==
    /\ stage = "rendered"
    /\ createdTs # 0
    /\ ElapsedS = 365 * SecondsPerDay
    /\ clock.ms = 0
    /\ age = AgeText(TRUE, 12, "mn")

====
